---- MODULE Spec2Model ----
(***************************************************************************)
(* Model of the research-digest scoring and selection engine               *)
(* (research_digest/ranker.py), the dedupe key of a candidate              *)
(* (models.py), the seen-history store (store.py) and the weekly digest    *)
(* pipeline (pipeline.py).                                                  *)
(*                                                                         *)
(* Conventions of the model                                                *)
(*  - A Python string that is compared, lower-cased or trimmed (title,     *)
(*    doi) is a sequence of one-character strings over Chars.  None and    *)
(*    the empty string are both falsy in the code and are both <<>>.       *)
(*  - The lower-cased text f"{title} {abstract}" that the regular          *)
(*    expressions and the keyword tests read is the set of phrases that    *)
(*    occur in it (field `abstract`); a pattern or keyword is found when   *)
(*    it is a substring of one of these phrases (Contains).                *)
(*  - Floating point scores are integers in hundredths (40.0 is 4000),     *)
(*    topic match scores are integers in tenths (2.5 is 25).               *)
(*  - A date is a day number; (now - publication_date).days is now - date. *)
(***************************************************************************)
EXTENDS Integers, Sequences, FiniteSets, TLC

VARIABLES
    config,         \* AppConfig in use
    candidates,     \* the candidate list handed to select_papers (mutated in place)
    seen_doi,       \* the seen_doi set handed to select_papers
    seen_titles,    \* the seen_titles set handed to select_papers
    now,            \* reference date of the run
    pc,             \* position inside select_papers / the pipeline
    returned,       \* per candidate: what score_candidate returned, if it was called
    ranked,         \* select_papers: the local list `ranked`
    selected,       \* select_papers: the local list `selected` (insertion order)
    selected_keys,  \* select_papers: the local set `selected_keys`
    ti,             \* select_papers: index of the next topic of the first pass
    result,         \* the list select_papers returned
    db,             \* DigestStore: the four tables
    week,           \* week key of the last ensure_weekly_digest call
    posts,          \* the posts the last ensure_weekly_digest call returned
    history,        \* dedupe keys selected and saved by the runs before the latest one
    threads,        \* request threads of the HTTP server, each inside one request
    fetch_all       \* what fetcher.fetch_all returned to the latest generate_digest

vars == <<config, candidates, seen_doi, seen_titles, now, pc, returned, ranked,
          selected, selected_keys, ti, result, db, week, posts, history, threads,
          fetch_all>>

-----------------------------------------------------------------------------
(* Bounds of the model *)

MaxCands == 3
MaxCap == 2
MaxMin == 2
MaxSeenCands == 2
MaxFetched == 1
MaxWeek == 1
MaxThreads == 2
MaxAge == 10
MaxExclCands == 2

-----------------------------------------------------------------------------
(* Strings *)

Chars == {"a", "b", "A", "B", ":", " "}

LowerChar(c) == IF c = "A" THEN "a" ELSE IF c = "B" THEN "b" ELSE IF c = "U" THEN "u" ELSE c

\* str.lower()
Lower(s) == [i \in 1..Len(s) |-> LowerChar(s[i])]

IsSpace(c) == c = " "

IsAlnum(c) == c \notin {":", " "}

RECURSIVE LStrip(_)
LStrip(s) == IF s # <<>> /\ IsSpace(Head(s)) THEN LStrip(Tail(s)) ELSE s

RECURSIVE RStrip(_)
RStrip(s) ==
    IF s # <<>> /\ IsSpace(s[Len(s)]) THEN RStrip(SubSeq(s, 1, Len(s) - 1)) ELSE s

\* str.strip()
Strip(s) == RStrip(LStrip(s))

\* " ".join(s.split()): runs of whitespace become one space, none at the ends
RECURSIVE CollapseSpaces(_)
CollapseSpaces(s) ==
    IF s = <<>> THEN <<>>
    ELSE IF IsSpace(Head(s))
         THEN LET rest == LStrip(s)
              IN  IF rest = <<>> THEN <<>> ELSE <<" ">> \o CollapseSpaces(rest)
         ELSE <<Head(s)>> \o CollapseSpaces(Tail(s))

SplitJoin(s) == CollapseSpaces(Strip(s))

\* store.normalize_title
normalize_title(value) ==
    LET v == Strip(Lower(value))
        cleaned == [i \in 1..Len(v) |->
                        IF IsAlnum(v[i]) \/ IsSpace(v[i]) THEN v[i] ELSE " "]
    IN  SplitJoin(cleaned)

\* CandidatePaper.dedupe_key
dedupe_key(paper) ==
    IF paper.doi # <<>> THEN Strip(Lower(paper.doi)) ELSE Lower(Strip(paper.title))

-----------------------------------------------------------------------------
(* Text: the phrases of the lower-cased title and abstract *)

\* Phrases a modelled text can contain.
Vocabulary ==
    {"personality psychology", "big five", "prejudice",
     "cardiometabolic outcomes", "cardiometabolic", "mediterranean diet",
     "systematic review", "meta-analysis", "meta analysis", "randomized",
     "mendelian randomization", "prospective cohort", "cohort", "case-control",
     "cross-sectional", "mice", "mouse model", "in vitro", "pathway",
     "commentary", "primary culture", "participants",
     "social psychology", "cooperation",
     "preregistered", "replication", "multi-site", "dyadic",
     "sensitivity analysis", "substitution", "dose-response"}

\* <<pattern, phrase>>: the pattern (a regular expression of ranker.py or a
\* keyword) is found in the phrase although it is not the phrase itself.
Hits ==
    {<<"cardiometabolic", "cardiometabolic outcomes">>,
     <<"\\bcohort\\b", "cohort">>,
     <<"\\bcohort\\b", "prospective cohort">>,
     <<"mouse", "mouse model">>,
     <<"preregistered|registered report|pre-registered", "preregistered">>,
     <<"replication|replicated|replicat", "replication">>,
     <<"multi-site|multisite|multi-centre|multicenter|multicentre", "multi-site">>,
     <<"within-person|within-subject|dyadic|apim", "dyadic">>,
     <<"negative control|triangulat|sensitivity anal", "sensitivity analysis">>,
     <<"substitut(?:ion|ing)|replac(?:ing|ement) .{0,30}(?:with|by)", "substitution">>,
     <<"dose.response|dose response", "dose-response">>}

\* re.search(pattern, text), and `kw in text`
Search(pattern, text) ==
    \E ph \in text : pattern = ph \/ <<pattern, ph>> \in Hits

STUDY_PATTERNS ==
    << [label |-> "systematic review",
        patterns |-> {"systematic review", "review and meta", "meta-analysis"}],
       [label |-> "meta-analysis",
        patterns |-> {"meta-analysis", "meta analysis", "network meta"}],
       [label |-> "randomized controlled trial",
        patterns |-> {"randomized", "randomised", "double-blind",
                      "placebo-controlled", "\\brct\\b", "feeding study"}],
       [label |-> "mendelian randomization",
        patterns |-> {"mendelian randomization", "mendelian randomisation"}],
       [label |-> "cohort",
        patterns |-> {"prospective cohort", "\\bcohort\\b", "longitudinal"}],
       [label |-> "case-control", patterns |-> {"case-control", "case control"}],
       [label |-> "cross-sectional",
        patterns |-> {"cross-sectional", "cross sectional"}],
       [label |-> "animal",
        patterns |-> {"mice", "mouse", "rat\\b", "animal model", "murine"}],
       [label |-> "mechanistic",
        patterns |-> {"in vitro", "cell line", "organoid", "ex vivo", "pathway",
                      "mechanistic"}],
       [label |-> "theory",
        patterns |-> {"\\btheory\\b", "conceptual", "commentary", "perspective"}] >>

StudyLabels == {STUDY_PATTERNS[i].label : i \in 1..Len(STUDY_PATTERNS)} \cup {"unknown"}

\* STUDY_PRIORITY, in tenths
STUDY_PRIORITY ==
    [l \in StudyLabels |->
        CASE l = "systematic review" -> 40
          [] l = "meta-analysis" -> 40
          [] l = "randomized controlled trial" -> 36
          [] l = "mendelian randomization" -> 32
          [] l = "cohort" -> 28
          [] l = "case-control" -> 23
          [] l = "cross-sectional" -> 20
          [] l = "animal" -> 10
          [] l = "mechanistic" -> 10
          [] l = "theory" -> 12
          [] OTHER -> 18]

NUTRITION_TOPICS ==
    {"weight management body composition", "cardiometabolic outcomes",
     "dietary patterns foods", "diet lifestyle longitudinal"}

NUTRITION_ACCEPTABLE_DESIGNS_WithCaseControl ==
    {"systematic review", "meta-analysis", "randomized controlled trial",
     "mendelian randomization", "cohort", "case-control", "cross-sectional"}

NUTRITION_ACCEPTABLE_DESIGNS ==
    {"systematic review", "meta-analysis", "randomized controlled trial",
     "mendelian randomization", "cohort", "cross-sectional"}

MECHANISTIC_NUTRITION_SIGNALS ==
    {"in vitro", "cell line", "organoid", "ex vivo", "mouse model", "murine",
     "\\brats?\\b", "primary culture"}

\* Phrases of the vocabulary in which the human-signal expression of
\* _is_purely_mechanistic_nutrition finds a word.
HumanSignalPhrases ==
    {"participants", "cohort", "prospective cohort", "randomized"}

\* QUALITY_BOOST_PATTERNS, boosts in hundredths
QUALITY_BOOST_PATTERNS ==
    << [pattern |-> "preregistered|registered report|pre-registered", boost |-> 600],
       [pattern |-> "replication|replicated|replicat", boost |-> 500],
       [pattern |-> "multi-site|multisite|multi-centre|multicenter|multicentre",
        boost |-> 400],
       [pattern |-> "within-person|within-subject|dyadic|apim", boost |-> 400],
       [pattern |-> "negative control|triangulat|sensitivity anal", boost |-> 300],
       [pattern |-> "substitut(?:ion|ing)|replac(?:ing|ement) .{0,30}(?:with|by)",
        boost |-> 400],
       [pattern |-> "dose.response|dose response", boost |-> 200] >>

SetMin(S) == CHOOSE x \in S : \A y \in S : x <= y

SetMax(S) == CHOOSE x \in S : \A y \in S : x >= y

infer_study_type_LastMatch(paper) ==
    LET text == paper.abstract
        matching == {i \in 1..Len(STUDY_PATTERNS) :
                        \E p \in STUDY_PATTERNS[i].patterns : Search(p, text)}
    IN  IF matching = {} THEN "unknown" ELSE STUDY_PATTERNS[SetMax(matching)].label

\* ranker.infer_study_type: the label of the first rule with a matching pattern
infer_study_type(paper) ==
    LET text == paper.abstract
        matching == {i \in 1..Len(STUDY_PATTERNS) :
                        \E p \in STUDY_PATTERNS[i].patterns : Search(p, text)}
    IN  IF matching = {} THEN "unknown" ELSE STUDY_PATTERNS[SetMin(matching)].label

_is_purely_mechanistic_nutrition_StudyTypeOnly(paper) ==
    infer_study_type(paper) \in {"animal", "mechanistic"}
    /\ paper.abstract \cap HumanSignalPhrases = {}

\* ranker._is_purely_mechanistic_nutrition
_is_purely_mechanistic_nutrition(paper) ==
    LET text == paper.abstract
        has_mechanistic == \E p \in MECHANISTIC_NUTRITION_SIGNALS : Search(p, text)
        human_signals == text \cap HumanSignalPhrases # {}
    IN  IF ~has_mechanistic THEN FALSE ELSE ~human_signals

RECURSIVE SumBoosts(_, _)
SumBoosts(i, text) ==
    IF i > Len(QUALITY_BOOST_PATTERNS) THEN 0
    ELSE (IF Search(QUALITY_BOOST_PATTERNS[i].pattern, text)
          THEN QUALITY_BOOST_PATTERNS[i].boost ELSE 0) + SumBoosts(i + 1, text)

\* ranker._quality_boost
_quality_boost(paper) == SumBoosts(1, paper.abstract)

-----------------------------------------------------------------------------
(* Journals *)

TIER1_HINTS ==
    {"nature", "science", "cell", "lancet", "new england journal of medicine",
     "jama", "bmj", "proceedings of the national academy of sciences", "pnas",
     "nature human behaviour", "psychological science",
     "journal of personality and social psychology",
     "journal of experimental psychology", "evolution and human behavior"}

\* Journal names of the model.
Journals == {"The Lancet", "Psychological Science", "Diabetes Care", "Appetite"}

\* <<journal, value>>: value.lower() is a substring of journal.lower()
JournalHits ==
    {<<"The Lancet", "lancet">>, <<"The Lancet", "The Lancet">>,
     <<"Psychological Science", "science">>,
     <<"Psychological Science", "psychological science">>,
     <<"Psychological Science", "Psychological Science">>,
     <<"Diabetes Care", "Diabetes Care">>,
     <<"Appetite", "Appetite">>}

InJournal(value, journal) == <<journal, value>> \in JournalHits

\* ranker.classify_journal_tier
classify_journal_tier(journal, cfg) ==
    IF \E h \in TIER1_HINTS : InJournal(h, journal) THEN 1
    ELSE IF \E v \in cfg.JOURNAL_PRIORITIES.tier1 : InJournal(v, journal) THEN 1
    ELSE IF \E v \in cfg.JOURNAL_PRIORITIES.tier2 : InJournal(v, journal) THEN 2
    ELSE IF \E v \in cfg.JOURNAL_PRIORITIES.tier3 : InJournal(v, journal) THEN 3
    ELSE 3

-----------------------------------------------------------------------------
(* Topic matcher *)

RECURSIVE KeywordScore(_, _, _, _)
KeywordScore(keywords, i, key, text) ==
    IF i > Len(keywords) THEN 0
    ELSE (IF keywords[i] = "" THEN 0
          ELSE IF Search(keywords[i], text)
               THEN (IF keywords[i] = key THEN 25 ELSE 10)
               ELSE 0)
         + KeywordScore(keywords, i + 1, key, text)

TopicScore_NoLabelBonus(topic, paper, cfg) ==
    LET text == paper.abstract
        key == topic
        keywords == IF key \in DOMAIN cfg.TOPIC_KEYWORDS /\ cfg.TOPIC_KEYWORDS[key] # <<>>
                    THEN cfg.TOPIC_KEYWORDS[key] ELSE <<key>>
    IN  KeywordScore(keywords, 1, key, text)

\* The score match_topics accumulates for one topic (tenths).
TopicScore(topic, paper, cfg) ==
    LET text == paper.abstract
        key == topic
        keywords == IF key \in DOMAIN cfg.TOPIC_KEYWORDS /\ cfg.TOPIC_KEYWORDS[key] # <<>>
                    THEN cfg.TOPIC_KEYWORDS[key] ELSE <<key>>
    IN  KeywordScore(keywords, 1, key, text)
        + (IF Search(topic, text) THEN 15 ELSE 0)

SeqRange(s) == {s[i] : i \in 1..Len(s)}

\* ranker.match_topics: the dict of the topics with a score > 0
match_topics(paper, cfg) ==
    LET matched == {t \in SeqRange(cfg.TOPICS) : TopicScore(t, paper, cfg) > 0}
    IN  [t \in matched |-> TopicScore(t, paper, cfg)]

\* ranker._is_nutrition_paper
_is_nutrition_paper(topic_scores) ==
    \E t \in DOMAIN topic_scores : t \in NUTRITION_TOPICS

-----------------------------------------------------------------------------
(* Scorer *)

ZeroBreakdown ==
    [journal |-> 0, open_access |-> 0, topic_match |-> 0, study_type |-> 0,
     novelty |-> 0, quality_boost |-> 0]

Rejected(st) == [study_type |-> st, total |-> 0, breakdown |-> ZeroBreakdown]

JournalComponent_Flat(tier) == 1400

JournalComponent_Tier2AsTier3(tier) == CASE tier = 1 -> 4000 [] tier = 2 -> 1400 [] tier = 3 -> 1400

JournalComponent(tier) == CASE tier = 1 -> 4000 [] tier = 2 -> 2600 [] tier = 3 -> 1400

OaComponent_IgnorePolicy(status, priority) ==
    IF status = "OPEN_ACCESS" THEN 1800
    ELSE IF status = "PAYWALLED" THEN -300
    ELSE 400

OaComponent_PaywallExcluded(status, priority) ==
    IF status = "OPEN_ACCESS" THEN (IF priority THEN 1800 ELSE 1000)
    ELSE IF status = "PAYWALLED" THEN (IF priority THEN -10000 ELSE 0)
    ELSE 400

OaComponent(status, priority) ==
    IF status = "OPEN_ACCESS" THEN (IF priority THEN 1800 ELSE 1000)
    ELSE IF status = "PAYWALLED" THEN (IF priority THEN -300 ELSE 0)
    ELSE 400

TopicComponent(top_topic_score) ==
    IF top_topic_score >= 40 THEN 2800
    ELSE IF top_topic_score >= 22 THEN 1900
    ELSE 1000

\* STUDY_PRIORITY.get(study_type, STUDY_PRIORITY["unknown"]) * 4.3
StudyComponent(st) ==
    (IF st \in DOMAIN STUDY_PRIORITY THEN STUDY_PRIORITY[st] ELSE STUDY_PRIORITY["unknown"])
    * 43

NoveltyComponent_StrictFirstDay(age_days) ==
    IF age_days < 1 THEN 800 ELSE IF age_days <= 3 THEN 600 ELSE 400

NoveltyComponent(age_days) ==
    IF age_days <= 1 THEN 800 ELSE IF age_days <= 3 THEN 600 ELSE 400

Scored_TopicMatchOfSum(paper, cfg, today, st, topic_scores) ==
    LET journal_component ==
            JournalComponent(classify_journal_tier(paper.journal, cfg))
        oa_component ==
            OaComponent(paper.open_access_status, cfg.OPEN_ACCESS_PRIORITY)
        v(t) == IF t \in DOMAIN topic_scores THEN topic_scores[t] ELSE 0
        topic_component ==
            TopicComponent(v("cardiometabolic outcomes") + v("personality psychology")
                           + v("social psychology") + v("dietary patterns foods"))
        study_component == StudyComponent(st)
        novelty_component == NoveltyComponent(today - paper.publication_date)
        quality_boost == _quality_boost(paper)
    IN  [study_type |-> st,
         total |-> journal_component + oa_component + topic_component
                   + study_component + novelty_component + quality_boost,
         breakdown |->
            [journal |-> journal_component, open_access |-> oa_component,
             topic_match |-> topic_component, study_type |-> study_component,
             novelty |-> novelty_component, quality_boost |-> quality_boost]]

Scored_TotalWithoutBoost(paper, cfg, today, st, topic_scores) ==
    LET journal_component ==
            JournalComponent(classify_journal_tier(paper.journal, cfg))
        oa_component ==
            OaComponent(paper.open_access_status, cfg.OPEN_ACCESS_PRIORITY)
        top_topic_score ==
            IF DOMAIN topic_scores = {} THEN 0
            ELSE SetMax({topic_scores[t] : t \in DOMAIN topic_scores})
        topic_component == TopicComponent(top_topic_score)
        study_component == StudyComponent(st)
        novelty_component == NoveltyComponent(today - paper.publication_date)
        quality_boost == _quality_boost(paper)
    IN  [study_type |-> st,
         total |-> journal_component + oa_component + topic_component
                   + study_component + novelty_component,
         breakdown |->
            [journal |-> journal_component, open_access |-> oa_component,
             topic_match |-> topic_component, study_type |-> study_component,
             novelty |-> novelty_component, quality_boost |-> quality_boost]]

\* The scoring of steps 5 to 10, for a paper with the given topic scores.
Scored(paper, cfg, today, st, topic_scores) ==
    LET journal_component ==
            JournalComponent(classify_journal_tier(paper.journal, cfg))
        oa_component ==
            OaComponent(paper.open_access_status, cfg.OPEN_ACCESS_PRIORITY)
        top_topic_score ==
            IF DOMAIN topic_scores = {} THEN 0
            ELSE SetMax({topic_scores[t] : t \in DOMAIN topic_scores})
        topic_component == TopicComponent(top_topic_score)
        study_component == StudyComponent(st)
        novelty_component == NoveltyComponent(today - paper.publication_date)
        quality_boost == _quality_boost(paper)
    IN  [study_type |-> st,
         total |-> journal_component + oa_component + topic_component
                   + study_component + novelty_component + quality_boost,
         breakdown |->
            [journal |-> journal_component, open_access |-> oa_component,
             topic_match |-> topic_component, study_type |-> study_component,
             novelty |-> novelty_component, quality_boost |-> quality_boost]]

score_candidate_NoTopicCheck(paper, cfg, today) ==
    LET st == infer_study_type(paper)
        topic_scores == match_topics(paper, cfg)
    IN  IF _is_nutrition_paper(topic_scores)
           /\ _is_purely_mechanistic_nutrition(paper) THEN Rejected(st)
        ELSE IF _is_nutrition_paper(topic_scores)
                /\ st \notin NUTRITION_ACCEPTABLE_DESIGNS /\ st # "unknown"
             THEN Rejected(st)
        ELSE Scored(paper, cfg, today, st, topic_scores)

\* ranker.score_candidate: the study_type it stores on the paper, the total and
\* the breakdown it returns
score_candidate(paper, cfg, today) ==
    LET st == infer_study_type(paper)
        topic_scores == match_topics(paper, cfg)
    IN  IF DOMAIN topic_scores = {} THEN Rejected(st)
        ELSE IF _is_nutrition_paper(topic_scores)
                /\ _is_purely_mechanistic_nutrition(paper) THEN Rejected(st)
        ELSE IF _is_nutrition_paper(topic_scores)
                /\ st \notin NUTRITION_ACCEPTABLE_DESIGNS /\ st # "unknown"
             THEN Rejected(st)
        ELSE Scored(paper, cfg, today, st, topic_scores)

-----------------------------------------------------------------------------
(* Selector *)

\* list.sort(key, reverse=True) and sorted(..., reverse=True) on a list of
\* [k |-> sort key, v |-> element]: a stable sort, equal keys keep their order.
RECURSIVE InsertDesc(_, _)
InsertDesc(s, x) ==
    IF s = <<>> THEN <<x>>
    ELSE IF Head(s).k >= x.k THEN <<Head(s)>> \o InsertDesc(Tail(s), x)
    ELSE <<x>> \o s

RECURSIVE SortDescFrom(_, _, _)
SortDescFrom(s, i, acc) ==
    IF i > Len(s) THEN acc ELSE SortDescFrom(s, i + 1, InsertDesc(acc, s[i]))

SortDesc(s) == SortDescFrom(s, 1, <<>>)

Values(s) == [i \in 1..Len(s) |-> s[i].v]

SortRanked_TiesReversed(s) ==
    Values(SortDesc([i \in 1..Len(s) |->
                        [k |-> s[Len(s) + 1 - i].paper.score, v |-> s[Len(s) + 1 - i]]]))

\* ranked.sort(key=lambda x: x.paper.score, reverse=True)
SortRanked(s) ==
    Values(SortDesc([i \in 1..Len(s) |-> [k |-> s[i].paper.score, v |-> s[i]]]))

\* sorted(matched_topics.keys(), key=lambda t: matched_topics[t], reverse=True);
\* the dict lists its keys in the order of config.TOPICS
TopicTags(topic_scores, cfg) ==
    LET keys == SelectSeq(cfg.TOPICS, LAMBDA t : t \in DOMAIN topic_scores)
    IN  Values(SortDesc([i \in 1..Len(keys) |-> [k |-> topic_scores[keys[i]], v |-> keys[i]]]))

Skipped_NoPeerCheck(paper, sd, st) ==
    \/ paper.doi # <<>> /\ Lower(paper.doi) \in sd
    \/ paper.doi = <<>> /\ Strip(Lower(paper.title)) \in st

\* The pre-filter of select_papers: TRUE when the loop skips the paper.
Skipped(paper, sd, st) ==
    \/ paper.doi # <<>> /\ Lower(paper.doi) \in sd
    \/ paper.doi = <<>> /\ Strip(Lower(paper.title)) \in st
    \/ ~paper.peer_reviewed

ScoredPaper_ResetsRejected(paper, cfg, sd, st, today) ==
    IF Skipped(paper, sd, st) THEN paper
    ELSE LET r == score_candidate(paper, cfg, today)
         IN  IF r.total <= 0 THEN [paper EXCEPT !.study_type = r.study_type,
                                                !.topic_tags = <<>>,
                                                !.score = 0]
             ELSE [paper EXCEPT !.study_type = r.study_type,
                                !.topic_tags = TopicTags(match_topics(paper, cfg), cfg),
                                !.score = r.total]

\* One iteration of the scoring loop: the paper as the loop leaves it.
ScoredPaper(paper, cfg, sd, st, today) ==
    IF Skipped(paper, sd, st) THEN paper
    ELSE LET r == score_candidate(paper, cfg, today)
         IN  IF r.total <= 0 THEN [paper EXCEPT !.study_type = r.study_type]
             ELSE [paper EXCEPT !.study_type = r.study_type,
                                !.topic_tags = TopicTags(match_topics(paper, cfg), cfg),
                                !.score = r.total]

\* What score_candidate returned for the paper, when the loop called it, and
\* the topic_scores it computed on the way.
Returned(paper, cfg, sd, st, today) ==
    IF Skipped(paper, sd, st)
    THEN [called |-> FALSE, total |-> 0, breakdown |-> ZeroBreakdown, topic_scores |-> <<>>]
    ELSE LET r == score_candidate(paper, cfg, today)
         IN  [called |-> TRUE, total |-> r.total, breakdown |-> r.breakdown,
              topic_scores |-> match_topics(paper, cfg)]

Survives(paper, cfg, sd, st, today) ==
    ~Skipped(paper, sd, st) /\ score_candidate(paper, cfg, today).total > 0

\* The list `ranked` before it is sorted.
RECURSIVE RankedFrom(_, _, _, _, _, _)
RankedFrom(cands, i, cfg, sd, st, today) ==
    IF i > Len(cands) THEN <<>>
    ELSE (IF Survives(cands[i], cfg, sd, st, today)
          THEN << [paper |-> ScoredPaper(cands[i], cfg, sd, st, today),
                   score_breakdown |-> score_candidate(cands[i], cfg, today).breakdown] >>
          ELSE <<>>)
         \o RankedFrom(cands, i + 1, cfg, sd, st, today)

TryAddOk_NoCap(acc, candidate, cfg) ==
    dedupe_key(candidate.paper) \notin acc.keys

TryAddOk_NoKey(acc, candidate, cfg) ==
    Len(acc.sel) < cfg.MAX_PAPERS_PER_WEEK

TryAddOk_CapOffByOne(acc, candidate, cfg) ==
    /\ dedupe_key(candidate.paper) \notin acc.keys
    /\ Len(acc.sel) <= cfg.MAX_PAPERS_PER_WEEK

\* select_papers._try_add on the accumulator [sel, keys]
TryAddOk(acc, candidate, cfg) ==
    /\ dedupe_key(candidate.paper) \notin acc.keys
    /\ Len(acc.sel) < cfg.MAX_PAPERS_PER_WEEK

TryAdd(acc, candidate, cfg) ==
    IF TryAddOk(acc, candidate, cfg)
    THEN [sel |-> Append(acc.sel, candidate),
          keys |-> acc.keys \cup {dedupe_key(candidate.paper)}]
    ELSE acc

\* for candidate in topic_matches[: MIN]: if not _try_add(candidate): break
RECURSIVE AddUntilFail(_, _, _, _)
AddUntilFail(acc, cs, i, cfg) ==
    IF i > Len(cs) THEN acc
    ELSE IF TryAddOk(acc, cs[i], cfg) THEN AddUntilFail(TryAdd(acc, cs[i], cfg), cs, i + 1, cfg)
    ELSE acc

Prefix(s, n) == SubSeq(s, 1, IF n < Len(s) THEN n ELSE Len(s))

FirstPassTopic_OneShort(acc, rk, topic, cfg) ==
    LET topic_matches ==
            SelectSeq(rk, LAMBDA c : /\ topic \in SeqRange(c.paper.topic_tags)
                                     /\ dedupe_key(c.paper) \notin acc.keys)
    IN  AddUntilFail(acc, Prefix(topic_matches, cfg.MIN_PAPERS_PER_TOPIC - 1), 1, cfg)

FirstPassTopic_SkipsBest(acc, rk, topic, cfg) ==
    LET topic_matches ==
            SelectSeq(rk, LAMBDA c : /\ topic \in SeqRange(c.paper.topic_tags)
                                     /\ dedupe_key(c.paper) \notin acc.keys)
        rest == IF topic_matches = <<>> THEN <<>> ELSE Tail(topic_matches)
    IN  AddUntilFail(acc, Prefix(rest, cfg.MIN_PAPERS_PER_TOPIC), 1, cfg)

FirstPassTopic_AtLeastOne(acc, rk, topic, cfg) ==
    LET topic_matches ==
            SelectSeq(rk, LAMBDA c : /\ topic \in SeqRange(c.paper.topic_tags)
                                     /\ dedupe_key(c.paper) \notin acc.keys)
        n == IF cfg.MIN_PAPERS_PER_TOPIC < 1 THEN 1 ELSE cfg.MIN_PAPERS_PER_TOPIC
    IN  AddUntilFail(acc, Prefix(topic_matches, n), 1, cfg)

\* One topic of the first pass.
FirstPassTopic(acc, rk, topic, cfg) ==
    LET topic_matches ==
            SelectSeq(rk, LAMBDA c : /\ topic \in SeqRange(c.paper.topic_tags)
                                     /\ dedupe_key(c.paper) \notin acc.keys)
    IN  AddUntilFail(acc, Prefix(topic_matches, cfg.MIN_PAPERS_PER_TOPIC), 1, cfg)

\* The first pass over the topics 1..k of config.TOPICS.
RECURSIVE FirstPass(_, _, _)
FirstPass(rk, cfg, k) ==
    IF k = 0 THEN [sel |-> <<>>, keys |-> {}]
    ELSE FirstPassTopic(FirstPass(rk, cfg, k - 1), rk, cfg.TOPICS[k], cfg)

\* The second pass: fill by total score until the cap is reached.
RECURSIVE SecondPass(_, _, _, _)
SecondPass(acc, rk, i, cfg) ==
    IF i > Len(rk) THEN acc
    ELSE IF Len(acc.sel) >= cfg.MAX_PAPERS_PER_WEEK THEN acc
    ELSE SecondPass(TryAdd(acc, rk[i], cfg), rk, i + 1, cfg)

FinalSort_Unsorted(s) == s

\* selected.sort(key=lambda x: x.paper.score, reverse=True)
FinalSort(s) ==
    Values(SortDesc([i \in 1..Len(s) |-> [k |-> s[i].paper.score, v |-> s[i]]]))

\* ranker.select_papers as a function of its arguments
select_papers(cands, cfg, sd, st, today) ==
    LET rk == SortRanked(RankedFrom(cands, 1, cfg, sd, st, today))
        p1 == FirstPass(rk, cfg, Len(cfg.TOPICS))
        p2 == SecondPass(p1, rk, 1, cfg)
    IN  FinalSort(p2.sel)

-----------------------------------------------------------------------------
(* Inputs *)

\* CandidatePaper(...) as the fetchers build it: study_type, topic_tags and
\* score at their dataclass defaults.
Paper(title, doi, journal, pub, oa, peer, human, abstract) ==
    [title |-> title, doi |-> doi, journal |-> journal, publication_date |-> pub,
     open_access_status |-> oa, peer_reviewed |-> peer, human_evidence |-> human,
     abstract |-> abstract, study_type |-> "unknown", topic_tags |-> <<>>,
     score |-> 0]

\* AppConfig with the fields the model reads; topics and keywords are taken
\* from DEFAULT_TOPICS and DEFAULT_TOPIC_KEYWORDS.
Config(topics, oa_priority, max, min, human_only) ==
    [TOPICS |-> topics,
     TOPIC_KEYWORDS |->
        [t \in {"personality psychology", "social psychology",
                "cardiometabolic outcomes", "dietary patterns foods"} |->
            CASE t = "personality psychology" -> <<"big five", "personality psychology">>
              [] t = "social psychology" -> <<"prejudice", "cooperation">>
              [] t = "cardiometabolic outcomes" -> <<"type 2 diabetes", "cardiometabolic">>
              [] t = "dietary patterns foods" -> <<"mediterranean diet", "whole grain">>],
     JOURNAL_PRIORITIES |->
        [tier1 |-> {"The Lancet", "Psychological Science"},
         tier2 |-> {"Diabetes Care"},
         tier3 |-> {}],
     OPEN_ACCESS_PRIORITY |-> oa_priority,
     MAX_PAPERS_PER_WEEK |-> max,
     MIN_PAPERS_PER_TOPIC |-> min,
     EXCLUDE |-> {"conference abstracts", "non-peer reviewed"},
     HUMAN_STUDIES_ONLY |-> human_only]

SeqsUpTo(S, n) == UNION {[1..m -> S] : m \in 0..n}

EmptyDb == [digest_runs |-> {}, posts |-> <<>>, seen_doi |-> {}, seen_titles |-> {}]

\* A request thread before it has received its request.
IdleThread == [pc |-> "idle", today |-> 0, force |-> FALSE, posts |-> <<>>]

NoThreads == [t \in 1..MaxThreads |-> IdleThread]

\* Everything but the arguments of select_papers, before the call.
InitRest ==
    /\ pc = "start"
    /\ returned = <<>>
    /\ ranked = <<>>
    /\ selected = <<>>
    /\ selected_keys = {}
    /\ ti = 1
    /\ result = <<>>
    /\ db = EmptyDb
    /\ week = 0
    /\ posts = <<>>
    /\ history = {}
    /\ threads = NoThreads
    /\ fetch_all = <<>>

-----------------------------------------------------------------------------
(* select_papers, step by step *)

\* The scoring loop and ranked.sort (ranker.py 267-284).
ScoreAndRank ==
    /\ pc = "start"
    /\ candidates' = [i \in 1..Len(candidates) |->
                        ScoredPaper(candidates[i], config, seen_doi, seen_titles, now)]
    /\ returned' = [i \in 1..Len(candidates) |->
                        Returned(candidates[i], config, seen_doi, seen_titles, now)]
    /\ ranked' = SortRanked(RankedFrom(candidates, 1, config, seen_doi, seen_titles, now))
    /\ selected' = <<>>
    /\ selected_keys' = {}
    /\ ti' = 1
    /\ pc' = "first_pass"
    /\ UNCHANGED <<config, seen_doi, seen_titles, now, result, db, week, posts, history,
                   threads, fetch_all>>

\* One topic of the first pass (ranker.py 300-304).
FirstPassStep ==
    /\ pc = "first_pass"
    /\ ti <= Len(config.TOPICS)
    /\ LET acc == FirstPassTopic([sel |-> selected, keys |-> selected_keys],
                                 ranked, config.TOPICS[ti], config)
       IN  /\ selected' = acc.sel
           /\ selected_keys' = acc.keys
    /\ ti' = ti + 1
    /\ UNCHANGED <<config, candidates, seen_doi, seen_titles, now, pc, returned,
                   ranked, result, db, week, posts, history, threads,
                   fetch_all>>

\* The second pass, the final sort and the return (ranker.py 307-313).
SecondPassAndReturn ==
    /\ pc = "first_pass"
    /\ ti > Len(config.TOPICS)
    /\ LET acc == SecondPass([sel |-> selected, keys |-> selected_keys], ranked, 1, config)
       IN  /\ selected' = acc.sel
           /\ selected_keys' = acc.keys
           /\ result' = FinalSort(acc.sel)
    /\ pc' = "done"
    /\ UNCHANGED <<config, candidates, seen_doi, seen_titles, now, returned, ranked,
                   ti, db, week, posts, history, threads, fetch_all>>

NextSelect == ScoreAndRank \/ FirstPassStep \/ SecondPassAndReturn

-----------------------------------------------------------------------------
(* SpecSelect: select_papers on candidate lists with duplicate keys, two
   topics and several scores *)

TopicsNP == <<"cardiometabolic outcomes", "personality psychology">>

\* Three dedupe keys, each carried by two different records: a DOI in two
\* spellings, a title in two spellings, and one title in two journals.  One
\* record of each pair matches the first topic, the other the second; the
\* first record matches both.
SelectPool ==
    {Paper(<<"a">>, <<"a">>, "The Lancet", MaxAge, "UNKNOWN", TRUE, "HUMAN",
           {"cardiometabolic", "big five"}),
     Paper(<<"b">>, <<"A", " ">>, "Appetite", MaxAge, "UNKNOWN", TRUE, "HUMAN",
           {"personality psychology", "big five"}),
     Paper(<<"b">>, <<>>, "Diabetes Care", MaxAge, "UNKNOWN", TRUE, "HUMAN",
           {"cardiometabolic"}),
     Paper(<<" ", "B">>, <<>>, "Appetite", MaxAge, "UNKNOWN", TRUE, "HUMAN",
           {"personality psychology", "big five"}),
     Paper(<<"a", ":", "b">>, <<>>, "Appetite", MaxAge, "UNKNOWN", TRUE, "HUMAN",
           {"cardiometabolic"}),
     Paper(<<"a", ":", "b">>, <<>>, "The Lancet", MaxAge, "UNKNOWN", TRUE, "HUMAN",
           {"personality psychology", "big five"})}

InitSelect ==
    /\ candidates \in SeqsUpTo(SelectPool, MaxCands)
    /\ config \in {Config(TopicsNP, TRUE, max, min, TRUE) :
                        max \in 0..MaxCap, min \in 0..MaxMin}
    /\ seen_doi = {}
    /\ seen_titles = {}
    /\ now = MaxAge
    /\ InitRest

SpecSelect == InitSelect /\ [][NextSelect]_vars

\* Dedupe keys of a list of RankedPaper.
KeysOf(rs) == {dedupe_key(rs[i].paper) : i \in 1..Len(rs)}

Tagged(rs, topic) == {i \in 1..Len(rs) : topic \in SeqRange(rs[i].paper.topic_tags)}

\* C1: select_papers never holds or returns more than MAX_PAPERS_PER_WEEK
\* papers: the cap holds after every topic of the first pass, after the second
\* pass and for the returned list.
C1_CapHolds ==
    /\ Len(selected) <= config.MAX_PAPERS_PER_WEEK
    /\ Len(result) <= config.MAX_PAPERS_PER_WEEK

\* The cap was binding: more distinct qualifying keys than the cap allows.
C1_Witness ==
    /\ pc = "done"
    /\ config.MAX_PAPERS_PER_WEEK >= 1
    /\ Cardinality(KeysOf(ranked)) > config.MAX_PAPERS_PER_WEEK
    /\ Len(result) = config.MAX_PAPERS_PER_WEEK

\* C4: no two papers of the returned list share a dedupe key.
C4_DistinctKeys ==
    /\ \A i, j \in 1..Len(selected) :
            i # j => dedupe_key(selected[i].paper) # dedupe_key(selected[j].paper)
    /\ \A i, j \in 1..Len(result) :
            i # j => dedupe_key(result[i].paper) # dedupe_key(result[j].paper)

\* Two qualifying candidates share a key (a DOI differing in case and
\* whitespace, or the same title without a DOI) and the key is selected once.
C4_Witness ==
    /\ pc = "done"
    /\ \E i, j \in 1..Len(ranked) :
            /\ i # j
            /\ ranked[i].paper # ranked[j].paper
            /\ dedupe_key(ranked[i].paper) = dedupe_key(ranked[j].paper)
            /\ dedupe_key(ranked[i].paper) \in KeysOf(result)
    /\ Len(result) < Len(ranked)
    /\ Len(result) < config.MAX_PAPERS_PER_WEEK

\* C6: the returned list is in non-increasing order of total score.
C6_SortedByScore ==
    pc = "done" =>
        \A i, j \in 1..Len(result) :
            i < j => result[i].paper.score >= result[j].paper.score

\* The passes inserted the papers in another order than the one returned.
C6_Witness ==
    /\ pc = "done"
    /\ Len(result) >= 2
    /\ selected # result
    /\ \E i \in 1..(Len(selected) - 1) :
            selected[i].paper.score < selected[i + 1].paper.score

-----------------------------------------------------------------------------
(* SpecSeen: select_papers against a seen-history *)

SeenDois == {<<>>, <<"a">>, <<"A">>, <<" ", "a">>}

SeenTitles == {<<"a">>, <<" ", "A">>, <<"a", ":", "b">>}

SeenPool ==
    {Paper(t, d, "Appetite", MaxAge, "UNKNOWN", TRUE, "HUMAN", {"big five"}) :
        t \in SeenTitles, d \in SeenDois}

InitSeen ==
    /\ candidates \in SeqsUpTo(SeenPool, MaxSeenCands)
    /\ config = Config(TopicsNP, TRUE, MaxSeenCands, 1, TRUE)
    /\ seen_doi \in SUBSET {<<"a">>, <<"b">>}
    /\ seen_titles \in SUBSET {<<"a">>, <<"a", " ", "b">>}
    /\ now = MaxAge
    /\ InitRest

SpecSeen == InitSeen /\ [][NextSelect]_vars

\* C2: no returned paper has its dedupe key in the seen-history (seen_doi for
\* a paper with a DOI, seen_titles for a paper without one).
C2_NoSeenKeySelected ==
    pc = "done" =>
        \A i \in 1..Len(result) :
            LET p == result[i].paper
            IN  IF p.doi # <<>> THEN dedupe_key(p) \notin seen_doi
                ELSE dedupe_key(p) \notin seen_titles

-----------------------------------------------------------------------------
(* The per-topic minimum of the first pass, on SpecSelect *)

\* Slots left when the first pass reaches topic k.
CapacityAtTurn(k) ==
    config.MAX_PAPERS_PER_WEEK - Len(FirstPass(ranked, config, k - 1).sel)

\* The qualifying candidates (unseen, peer-reviewed, score > 0) are the entries
\* of `ranked`; no two of them share a dedupe key.
NoDuplicateKeys == Cardinality(KeysOf(ranked)) = Len(ranked)

\* C5 as stated: a topic with at least MIN_PAPERS_PER_TOPIC qualifying
\* candidates, reached by the first pass before the cap is exhausted, has at
\* least MIN_PAPERS_PER_TOPIC papers in the returned list.
C5_AsStated ==
    pc = "done" =>
        \A k \in 1..Len(config.TOPICS) :
            ( /\ Cardinality(Tagged(ranked, config.TOPICS[k])) >= config.MIN_PAPERS_PER_TOPIC
              /\ CapacityAtTurn(k) > 0 )
            => Cardinality(Tagged(result, config.TOPICS[k])) >= config.MIN_PAPERS_PER_TOPIC

\* C5 amended: when no two qualifying candidates share a dedupe key, a topic
\* with at least MIN_PAPERS_PER_TOPIC qualifying candidates that the first pass
\* reaches while at least MIN_PAPERS_PER_TOPIC slots are free has at least
\* MIN_PAPERS_PER_TOPIC papers in the returned list.
C5_TopicMinimum ==
    pc = "done" /\ NoDuplicateKeys =>
        \A k \in 1..Len(config.TOPICS) :
            ( /\ Cardinality(Tagged(ranked, config.TOPICS[k])) >= config.MIN_PAPERS_PER_TOPIC
              /\ CapacityAtTurn(k) >= config.MIN_PAPERS_PER_TOPIC )
            => Cardinality(Tagged(result, config.TOPICS[k])) >= config.MIN_PAPERS_PER_TOPIC

\* The first pass decided: a topic got its minimum although its papers are not
\* among the MAX_PAPERS_PER_WEEK best by score.
C5_Witness ==
    /\ pc = "done"
    /\ NoDuplicateKeys
    /\ config.MIN_PAPERS_PER_TOPIC >= 1
    /\ Len(ranked) > config.MAX_PAPERS_PER_WEEK
    /\ \E k \in 1..Len(config.TOPICS) :
        /\ Cardinality(Tagged(ranked, config.TOPICS[k])) >= config.MIN_PAPERS_PER_TOPIC
        /\ CapacityAtTurn(k) >= config.MIN_PAPERS_PER_TOPIC
        /\ Tagged(Prefix(ranked, config.MAX_PAPERS_PER_WEEK), config.TOPICS[k]) = {}
        /\ Cardinality(Tagged(result, config.TOPICS[k])) = config.MIN_PAPERS_PER_TOPIC

\* The first pass has reached the cap with topic k (k = 0: the cap is 0).
CapReachedAt(k) == Len(FirstPass(ranked, config, k).sel) >= config.MAX_PAPERS_PER_WEEK

\* C18: once the first pass has reached the cap with a topic, nothing is added
\* for a later topic or by the second pass: the selection stays the first-pass
\* picks of the topics up to that one, the returned list holds exactly those
\* picks, and a paper of a later topic in it is one of those picks.
C18_CapEndsFirstPass ==
    \A k \in 0..Len(config.TOPICS) :
        ( /\ pc \in {"first_pass", "done"}
          /\ ti - 1 >= k
          /\ CapReachedAt(k) )
        => /\ selected = FirstPass(ranked, config, k).sel
           /\ pc = "done" =>
                /\ Len(result) = Len(selected)
                /\ SeqRange(result) = SeqRange(FirstPass(ranked, config, k).sel)
                /\ \A j \in (k + 1)..Len(config.TOPICS) :
                        \A i \in Tagged(result, config.TOPICS[j]) :
                            result[i] \in SeqRange(FirstPass(ranked, config, k).sel)

\* The minimums of the two topics exceed the cap, the first topic used it up
\* and the second topic, which has qualifying candidates, got nothing.
C18_Witness ==
    /\ pc = "done"
    /\ config.MIN_PAPERS_PER_TOPIC * Len(config.TOPICS) > config.MAX_PAPERS_PER_WEEK
    /\ config.MAX_PAPERS_PER_WEEK >= 1
    /\ CapReachedAt(1)
    /\ Tagged(ranked, config.TOPICS[2]) # {}
    /\ Tagged(result, config.TOPICS[2]) = {}
    /\ Len(result) = config.MAX_PAPERS_PER_WEEK

\* C24: the list `ranked` that select_papers builds is in non-increasing score
\* order and holds the surviving candidates, those of equal total score in the
\* relative order they have in the candidate list.
C24_RankedStableSort ==
    pc # "start" =>
        LET survivors == SelectSeq(candidates,
                            LAMBDA p : Survives(p, config, seen_doi, seen_titles, now))
            papers == [i \in 1..Len(ranked) |-> ranked[i].paper]
        IN  /\ \A i, j \in 1..Len(ranked) :
                    i < j => ranked[i].paper.score >= ranked[j].paper.score
            /\ Len(papers) = Len(survivors)
            /\ \A v \in {papers[i].score : i \in 1..Len(papers)} :
                    SelectSeq(papers, LAMBDA p : p.score = v)
                        = SelectSeq(survivors, LAMBDA p : p.score = v)

\* The best candidate came last in the input and is ranked first; the two
\* before it are different records with the same score and kept their order.
C24_Witness ==
    /\ pc = "done"
    /\ Len(candidates) = 3
    /\ Len(ranked) = 3
    /\ ranked[1].paper = candidates[3]
    /\ ranked[2].paper = candidates[1]
    /\ ranked[3].paper = candidates[2]
    /\ candidates[1] # candidates[2]
    /\ candidates[1].score = candidates[2].score
    /\ candidates[3].score > candidates[1].score

\* First topic, in the order of config.TOPICS, that a qualifying candidate is
\* tagged with (every entry of `ranked` has at least one tag).
FirstMatchedTopic ==
    config.TOPICS[SetMin({k \in 1..Len(config.TOPICS) : Tagged(ranked, config.TOPICS[k]) # {}})]

\* C28 as stated: with MAX_PAPERS_PER_WEEK >= 1 and a qualifying candidate, the
\* first element of the returned list has the highest total score of all
\* qualifying candidates.
C28_AsStated ==
    ( /\ pc = "done"
      /\ config.MAX_PAPERS_PER_WEEK >= 1
      /\ ranked # <<>> )
    => /\ result # <<>>
       /\ result[1].paper.score = ranked[1].paper.score

\* C28 amended: with MAX_PAPERS_PER_WEEK >= 1 and a qualifying candidate the
\* returned list is not empty; with MIN_PAPERS_PER_TOPIC = 0 its first element
\* has the highest total score of all qualifying candidates; with
\* MIN_PAPERS_PER_TOPIC >= 1 it holds the best candidate of the first
\* configured topic that has a qualifying candidate.
C28_BestOfFirstMatchedTopic ==
    ( /\ pc = "done"
      /\ config.MAX_PAPERS_PER_WEEK >= 1
      /\ ranked # <<>> )
    => /\ result # <<>>
       /\ config.MIN_PAPERS_PER_TOPIC = 0 =>
                result[1].paper.score = ranked[1].paper.score
       /\ config.MIN_PAPERS_PER_TOPIC >= 1 =>
                LET best == ranked[SetMin(Tagged(ranked, FirstMatchedTopic))]
                IN  /\ \E i \in 1..Len(result) : result[i] = best
                    /\ result[1].paper.score >= best.paper.score

\* The fairness pick of the first topic took the only slot: the returned paper
\* scores below the best qualifying candidate, which has another topic.
C28_Witness ==
    /\ pc = "done"
    /\ config.MAX_PAPERS_PER_WEEK = 1
    /\ config.MIN_PAPERS_PER_TOPIC >= 1
    /\ Len(ranked) >= 2
    /\ Len(result) = 1
    /\ result[1] = ranked[SetMin(Tagged(ranked, FirstMatchedTopic))]
    /\ result[1].paper.score < ranked[1].paper.score
    /\ FirstMatchedTopic \notin SeqRange(ranked[1].paper.topic_tags)

\* Positions of `ranked` that hold the first occurrence of their dedupe key.
FirstOccurrences ==
    {i \in 1..Len(ranked) :
        \A j \in 1..(i - 1) : dedupe_key(ranked[j].paper) # dedupe_key(ranked[i].paper)}

\* C29: with MIN_PAPERS_PER_TOPIC = 0 the first pass adds nothing and the
\* returned list is the first MAX_PAPERS_PER_WEEK entries of `ranked` with
\* pairwise distinct dedupe keys, the first occurrence of a key winning, in the
\* order of `ranked`.
C29_TopByScoreWithoutMinimum ==
    config.MIN_PAPERS_PER_TOPIC = 0 =>
        /\ pc = "first_pass" => selected = <<>>
        /\ pc = "done" =>
            /\ Len(result) = IF Cardinality(FirstOccurrences) < config.MAX_PAPERS_PER_WEEK
                             THEN Cardinality(FirstOccurrences)
                             ELSE config.MAX_PAPERS_PER_WEEK
            /\ \A n \in 1..Len(result) :
                    \E i \in FirstOccurrences :
                        /\ Cardinality({j \in FirstOccurrences : j <= i}) = n
                        /\ result[n] = ranked[i]

\* Both topics have candidates, the second entry of `ranked` repeats the key of
\* the first as another record, and the two slots go to the first and third.
C29_Witness ==
    /\ pc = "done"
    /\ config.MIN_PAPERS_PER_TOPIC = 0
    /\ config.MAX_PAPERS_PER_WEEK = 2
    /\ Len(ranked) = 3
    /\ ranked[1] # ranked[2]
    /\ dedupe_key(ranked[1].paper) = dedupe_key(ranked[2].paper)
    /\ \A k \in 1..Len(config.TOPICS) : Tagged(ranked, config.TOPICS[k]) # {}
    /\ result = <<ranked[1], ranked[3]>>

-----------------------------------------------------------------------------
(* SpecScore: score_candidate on one candidate *)

ScoreTopicParts ==
    {{}, {"prejudice"}, {"big five"}, {"cardiometabolic"},
     {"big five", "cardiometabolic"}, {"personality psychology", "big five"}}

DesignPhrases ==
    {"systematic review", "meta analysis", "randomized", "mendelian randomization",
     "cohort", "case-control", "cross-sectional", "mice", "in vitro", "pathway",
     "commentary"}

ScoreDesignParts == {{}} \cup {{d} : d \in DesignPhrases}

ScoreSignalParts ==
    {{}, {"participants"}, {"primary culture"}, {"primary culture", "participants"}}

ScoreBoostParts == {{}, {"preregistered", "dose-response"}}

ScorePool ==
    {Paper(<<"a">>, <<"a">>, j, d, oa, TRUE, "HUMAN", tp \cup dp \cup sp \cup bp) :
        j \in {"The Lancet", "Diabetes Care", "Appetite"},
        d \in {0, MaxAge},
        oa \in {"OPEN_ACCESS", "PAYWALLED", "UNKNOWN"},
        tp \in ScoreTopicParts, dp \in ScoreDesignParts,
        sp \in ScoreSignalParts, bp \in ScoreBoostParts}

InitScore ==
    /\ candidates \in {<<p>> : p \in ScorePool}
    /\ config \in {Config(TopicsNP, oap, 1, 1, TRUE) : oap \in BOOLEAN}
    /\ seen_doi = {}
    /\ seen_titles = {}
    /\ now = MaxAge
    /\ InitRest

SpecScore == InitScore /\ [][NextSelect]_vars

\* The candidate matches no configured topic.
NoTopicMatch(paper) == \A t \in SeqRange(config.TOPICS) : TopicScore(t, paper, config) = 0

MatchesNutritionTopic(paper) ==
    \E t \in SeqRange(config.TOPICS) \cap NUTRITION_TOPICS : TopicScore(t, paper, config) > 0

MechanisticSignal(paper) ==
    \E sig \in MECHANISTIC_NUTRITION_SIGNALS : Search(sig, paper.abstract)

HumanSignal(paper) == paper.abstract \cap HumanSignalPhrases # {}

ZeroReturned(r) ==
    /\ r.total = 0
    /\ DOMAIN r.breakdown = {"journal", "open_access", "topic_match", "study_type",
                             "novelty", "quality_boost"}
    /\ \A f \in DOMAIN r.breakdown : r.breakdown[f] = 0

\* C8: for a candidate that matches no configured topic score_candidate
\* returns total 0 and an all-zero breakdown, and the candidate is not in the
\* returned selection.
C8_NoTopicScoresZero ==
    /\ \A i \in 1..Len(returned) :
            returned[i].called /\ NoTopicMatch(candidates[i]) => ZeroReturned(returned[i])
    /\ \A i \in 1..Len(result) : ~NoTopicMatch(result[i].paper)

\* An unmatched candidate in a tier-1 journal, open access, published today,
\* with quality boosts, was scored and dropped.
C8_Witness ==
    /\ pc = "done"
    /\ result = <<>>
    /\ \E i \in 1..Len(returned) :
        /\ returned[i].called
        /\ NoTopicMatch(candidates[i])
        /\ candidates[i].abstract # {}
        /\ candidates[i].journal = "The Lancet"
        /\ candidates[i].open_access_status = "OPEN_ACCESS"
        /\ "preregistered" \in candidates[i].abstract

\* C9: a candidate that matches a strict nutrition topic and shows a
\* mechanistic signal without a human-study signal gets total 0 and an all-zero
\* breakdown, whatever its journal, open-access status, age, boosts and other
\* matched topics.
C9_MechanisticNutritionZero ==
    \A i \in 1..Len(returned) :
        ( /\ returned[i].called
          /\ MatchesNutritionTopic(candidates[i])
          /\ MechanisticSignal(candidates[i])
          /\ ~HumanSignal(candidates[i]) )
        => ZeroReturned(returned[i])

\* A mechanistic-only nutrition paper whose study design is otherwise
\* acceptable, in a tier-1 journal, also matching a topic outside the group.
C9_Witness ==
    \E i \in 1..Len(returned) :
        /\ returned[i].called
        /\ MatchesNutritionTopic(candidates[i])
        /\ MechanisticSignal(candidates[i])
        /\ ~HumanSignal(candidates[i])
        /\ candidates[i].study_type = "systematic review"
        /\ candidates[i].journal = "The Lancet"
        /\ "big five" \in candidates[i].abstract
        /\ returned[i].total = 0

\* C10: a candidate that matches a strict nutrition topic and whose inferred
\* study_type is neither one of the six acceptable designs nor "unknown" gets
\* total 0 and an all-zero breakdown; with study_type "unknown" the design
\* rule does not reject it (it scores > 0 unless it is mechanistic-only).
C10_NutritionDesignRule ==
    \A i \in 1..Len(returned) :
        returned[i].called /\ MatchesNutritionTopic(candidates[i]) =>
            /\ ( candidates[i].study_type \notin
                    {"systematic review", "meta-analysis", "randomized controlled trial",
                     "mendelian randomization", "cohort", "cross-sectional", "unknown"}
                 => ZeroReturned(returned[i]) )
            /\ ( /\ candidates[i].study_type = "unknown"
                 /\ ~(MechanisticSignal(candidates[i]) /\ ~HumanSignal(candidates[i]))
                 => returned[i].total > 0 )

\* A case-control nutrition paper with a human-study signal (so the
\* mechanistic rule does not apply) was rejected by the design rule.
C10_Witness ==
    \E i \in 1..Len(returned) :
        /\ returned[i].called
        /\ MatchesNutritionTopic(candidates[i])
        /\ candidates[i].study_type = "case-control"
        /\ HumanSignal(candidates[i])
        /\ ~MechanisticSignal(candidates[i])
        /\ returned[i].total = 0

\* The candidate passes the three rejection rules of the scorer: it matches a
\* topic, is not a mechanistic-only nutrition paper, and as a nutrition paper
\* has an acceptable or unknown design.
PassesRejectionRules(paper) ==
    /\ ~NoTopicMatch(paper)
    /\ ~(MatchesNutritionTopic(paper) /\ MechanisticSignal(paper) /\ ~HumanSignal(paper))
    /\ ~( /\ MatchesNutritionTopic(paper)
          /\ paper.study_type \notin
                {"systematic review", "meta-analysis", "randomized controlled trial",
                 "mendelian randomization", "cohort", "cross-sectional", "unknown"} )

\* The six factors of a breakdown.
BreakdownKeys ==
    {"journal", "open_access", "topic_match", "study_type", "novelty", "quality_boost"}

BreakdownSum(b) ==
    b.journal + b.open_access + b.topic_match + b.study_type + b.novelty + b.quality_boost

\* C13: the total score_candidate returns is the sum of the six values of the
\* breakdown it returns, for scored and for rejected candidates, and the
\* breakdown has exactly the six keys.
C13_TotalIsSumOfBreakdown ==
    \A i \in 1..Len(returned) :
        returned[i].called =>
            /\ DOMAIN returned[i].breakdown = BreakdownKeys
            /\ returned[i].total = BreakdownSum(returned[i].breakdown)

\* A scored candidate with a negative open-access component and quality
\* boosts.
C13_Witness ==
    \E i \in 1..Len(returned) :
        /\ returned[i].called
        /\ returned[i].breakdown.open_access < 0
        /\ returned[i].breakdown.quality_boost > 0
        /\ returned[i].total > 0
        /\ returned[i].total = BreakdownSum(returned[i].breakdown)

\* C19: a candidate that passes the rejection rules of the scorer gets a
\* strictly positive total, whatever its journal tier, open-access status,
\* policy, topic match, study type, age and boosts, so that the ranked list
\* holds exactly the candidates that pass the rules.
C19_PositiveUnlessRejected ==
    /\ \A i \in 1..Len(returned) :
            returned[i].called =>
                (returned[i].total > 0 <=> PassesRejectionRules(candidates[i]))
    /\ pc # "start" =>
            Len(ranked) = Cardinality({i \in 1..Len(candidates) :
                                            PassesRejectionRules(candidates[i])})

\* The lowest-scoring combination: tier 3, PAYWALLED under the policy, weakest
\* topic match, an animal study, older than 3 days, no boost.
C19_Witness ==
    /\ pc = "done"
    /\ config.OPEN_ACCESS_PRIORITY
    /\ \E i \in 1..Len(returned) :
        /\ returned[i].called
        /\ PassesRejectionRules(candidates[i])
        /\ returned[i].breakdown = [journal |-> 1400, open_access |-> -300,
                                    topic_match |-> 1000, study_type |-> 430,
                                    novelty |-> 400, quality_boost |-> 0]
        /\ returned[i].total = 2930
        /\ Len(result) = 1

-----------------------------------------------------------------------------
(* SpecScenario: two candidates of one topic, MAX_PAPERS_PER_WEEK = 1 *)

AllBoosts ==
    {"preregistered", "replication", "multi-site", "dyadic", "sensitivity analysis",
     "substitution", "dose-response"}

ScenarioExtras ==
    {dp \cup bp :
        dp \in {{}, {"systematic review"}, {"randomized"}, {"case-control"}, {"mice"},
                {"commentary"}},
        bp \in {{}, {"preregistered"}, AllBoosts}}

\* Topic match score 5.0, tier-1 journal, OPEN_ACCESS, published today.
ScenarioFirst ==
    {Paper(<<"a">>, <<"a">>, j, MaxAge, "OPEN_ACCESS", TRUE, "HUMAN",
           {"personality psychology", "big five"} \cup x) :
        j \in {"The Lancet", "Psychological Science"}, x \in ScenarioExtras}

\* Topic match score 1.0, tier-3 journal, PAYWALLED, published 10 days ago.
ScenarioSecond ==
    {Paper(<<"b">>, d, "Appetite", MaxAge - 10, "PAYWALLED", TRUE, "HUMAN",
           {"big five"} \cup x) :
        d \in {<<"a">>, <<"b">>}, x \in ScenarioExtras}

InitScenario ==
    /\ candidates \in {<<p, q>> : p \in ScenarioFirst, q \in ScenarioSecond}
                      \cup {<<q, p>> : p \in ScenarioFirst, q \in ScenarioSecond}
    /\ config \in {Config(TopicsNP, oap, 1, min, TRUE) :
                        oap \in BOOLEAN, min \in 0..MaxMin}
    /\ seen_doi = {}
    /\ seen_titles = {}
    /\ now = MaxAge
    /\ InitRest

SpecScenario == InitScenario /\ [][NextSelect]_vars

\* C7: of the two candidates of the scenario select_papers with
\* MAX_PAPERS_PER_WEEK = 1 returns exactly the first (topic match 5.0, tier 1,
\* open access, published today), for either input order, either
\* OPEN_ACCESS_PRIORITY and any study design and quality boosts of the two.
C7_ScenarioPicksFirst ==
    pc = "done" =>
        /\ Len(result) = 1
        /\ result[1].paper.open_access_status = "OPEN_ACCESS"
        /\ result[1].paper.title = <<"a">>
        /\ result[1].score_breakdown.topic_match = 2800

\* The first candidate won against the strongest second candidate: listed
\* after it, with the weakest design and no boost against the best design and
\* every boost, with OPEN_ACCESS_PRIORITY off.
C7_Witness ==
    /\ pc = "done"
    /\ Len(candidates) = 2
    /\ candidates[1].open_access_status = "PAYWALLED"
    /\ candidates[1].study_type = "systematic review"
    /\ AllBoosts \subseteq candidates[1].abstract
    /\ candidates[1].score > 0
    /\ candidates[2].study_type = "animal"
    /\ candidates[2].abstract \cap AllBoosts = {}
    /\ ~config.OPEN_ACCESS_PRIORITY
    /\ Len(result) = 1
    /\ result[1].paper = candidates[2]

-----------------------------------------------------------------------------
(* SpecFilter: select_papers on candidates that are seen, not peer-reviewed
   or without a topic *)

FilterPool ==
    {Paper(t, <<>>, "Appetite", MaxAge, "UNKNOWN", peer, "HUMAN", ab) :
        t \in {<<"a">>, <<"b">>}, peer \in BOOLEAN, ab \in {{}, {"big five"}}}
    \cup {Paper(<<"b">>, <<" ", "a">>, "The Lancet", MaxAge, "UNKNOWN", TRUE, "HUMAN",
                {"big five"})}

InitFilter ==
    /\ candidates \in SeqsUpTo(FilterPool, MaxSeenCands)
    /\ config \in {[Config(TopicsNP, TRUE, max, 1, TRUE) EXCEPT !.EXCLUDE = ex] :
                        max \in 0..MaxCap,
                        ex \in {{}, {"conference abstracts", "non-peer reviewed"}}}
    /\ seen_doi \in {{}, {<<"a">>}}
    /\ seen_titles \in {{}, {<<"a">>}}
    /\ now = MaxAge
    /\ InitRest

SpecFilter == InitFilter /\ [][NextSelect]_vars

\* The dedupe key of the paper is in the seen-history.
SeenKey(paper) ==
    IF paper.doi # <<>> THEN dedupe_key(paper) \in seen_doi
    ELSE dedupe_key(paper) \in seen_titles

\* Dedupe keys of the qualifying candidates: unseen, peer-reviewed, score > 0.
QualifyingKeys ==
    {dedupe_key(candidates[i]) :
        i \in {j \in 1..Len(candidates) :
                /\ ~SeenKey(candidates[j])
                /\ candidates[j].peer_reviewed
                /\ score_candidate(candidates[j], config, now).total > 0}}

\* C14: when the qualifying candidates have at most MAX_PAPERS_PER_WEEK
\* distinct dedupe keys the returned list has exactly one paper for each key;
\* a returned list shorter than MAX_PAPERS_PER_WEEK misses no qualifying key;
\* an empty candidate list gives an empty selection.
C14_AllQualifyingReturned ==
    pc = "done" =>
        /\ Cardinality(QualifyingKeys) <= config.MAX_PAPERS_PER_WEEK =>
                \A k \in QualifyingKeys :
                    Cardinality({i \in 1..Len(result) : dedupe_key(result[i].paper) = k}) = 1
        /\ Len(result) < config.MAX_PAPERS_PER_WEEK => QualifyingKeys \subseteq KeysOf(result)
        /\ candidates = <<>> => result = <<>>

\* C15: no paper with peer_reviewed = false is selected or returned, whatever
\* its score and the EXCLUDE list of the configuration.
C15_OnlyPeerReviewed ==
    /\ \A i \in 1..Len(selected) : selected[i].paper.peer_reviewed
    /\ \A i \in 1..Len(result) : result[i].paper.peer_reviewed

\* A candidate that is not peer-reviewed and would score was left out although
\* EXCLUDE does not list "non-peer reviewed" and the cap left room.
C15_Witness ==
    /\ pc = "done"
    /\ "non-peer reviewed" \notin config.EXCLUDE
    /\ Len(result) < config.MAX_PAPERS_PER_WEEK
    /\ \E i \in 1..Len(candidates) :
        /\ ~candidates[i].peer_reviewed
        /\ ~SeenKey(candidates[i])
        /\ score_candidate(candidates[i], config, now).total > 0
        /\ dedupe_key(candidates[i]) \notin KeysOf(result)

-----------------------------------------------------------------------------
(* SpecComponents: score_candidate on two candidates that differ in one of
   journal, publication date and open-access status *)

\* Publication dates around the reference date MaxAge: ages -2 .. 4 days.
ComponentDates == (MaxAge - 4)..(MaxAge + 2)

OaStatuses == {"OPEN_ACCESS", "PAYWALLED", "UNKNOWN", "HYBRID"}

ComponentPool ==
    {Paper(<<"a">>, <<"a">>, j, d, oa, TRUE, "HUMAN", tp \cup dp) :
        j \in Journals, d \in ComponentDates, oa \in OaStatuses,
        tp \in {{}, {"big five"}, {"cardiometabolic"}}, dp \in {{}, {"mice"}}}

ComponentPairs ==
    {<<p, [p EXCEPT !.journal = j]>> : p \in ComponentPool, j \in Journals}
    \cup {<<p, [p EXCEPT !.publication_date = d]>> : p \in ComponentPool, d \in ComponentDates}
    \cup {<<p, [p EXCEPT !.open_access_status = oa]>> : p \in ComponentPool, oa \in OaStatuses}

InitComponents ==
    /\ candidates \in ComponentPairs
    /\ config \in {Config(TopicsNP, oap, 1, 1, TRUE) : oap \in BOOLEAN}
    /\ seen_doi = {}
    /\ seen_titles = {}
    /\ now = MaxAge
    /\ InitRest

SpecComponents == InitComponents /\ [][NextSelect]_vars

\* Candidate i was scored and not rejected.
NonRejected(i) == returned[i].called /\ PassesRejectionRules(candidates[i])

\* Candidates i and j are the same but for the named field.
SameBut(i, j, field) ==
    \A f \in {"title", "doi", "journal", "publication_date", "open_access_status",
              "peer_reviewed", "human_evidence", "abstract"} \ {field} :
        candidates[i][f] = candidates[j][f]

AgeDays(i) == now - candidates[i].publication_date

\* C11: the journal component of a non-rejected candidate is 40.0 / 26.0 /
\* 14.0 for tier 1 / 2 / 3, and of two candidates that differ only in journal
\* tier the better tier has the strictly higher journal component and total.
C11_JournalTierOrdering ==
    /\ \A i \in 1..Len(returned) :
            NonRejected(i) =>
                LET tier == classify_journal_tier(candidates[i].journal, config)
                IN  /\ tier = 1 => returned[i].breakdown.journal = 4000
                    /\ tier = 2 => returned[i].breakdown.journal = 2600
                    /\ tier = 3 => returned[i].breakdown.journal = 1400
    /\ \A i, j \in 1..Len(returned) :
            ( /\ NonRejected(i) /\ NonRejected(j)
              /\ SameBut(i, j, "journal")
              /\ classify_journal_tier(candidates[i].journal, config)
                    < classify_journal_tier(candidates[j].journal, config) )
            => /\ returned[i].breakdown.journal > returned[j].breakdown.journal
               /\ returned[i].total > returned[j].total

\* A tier-2 and a tier-3 candidate, otherwise identical, were both scored.
C11_Witness ==
    /\ pc = "done"
    /\ Len(returned) = 2
    /\ NonRejected(1) /\ NonRejected(2)
    /\ SameBut(1, 2, "journal")
    /\ classify_journal_tier(candidates[1].journal, config) = 2
    /\ classify_journal_tier(candidates[2].journal, config) = 3
    /\ returned[1].total > returned[2].total

\* C12: the novelty component of a non-rejected candidate is 8.0 for an age of
\* at most 1 day, 6.0 for 2 or 3 days and 4.0 for more than 3 days, and is
\* non-increasing in the age, negative ages included.
C12_NoveltyByAge ==
    /\ \A i \in 1..Len(returned) :
            NonRejected(i) =>
                /\ AgeDays(i) <= 1 => returned[i].breakdown.novelty = 800
                /\ AgeDays(i) \in {2, 3} => returned[i].breakdown.novelty = 600
                /\ AgeDays(i) > 3 => returned[i].breakdown.novelty = 400
    /\ \A i, j \in 1..Len(returned) :
            NonRejected(i) /\ NonRejected(j) /\ AgeDays(i) <= AgeDays(j)
            => returned[i].breakdown.novelty >= returned[j].breakdown.novelty

\* A future-dated candidate and the same candidate aged exactly one day.
C12_Witness ==
    /\ pc = "done"
    /\ Len(returned) = 2
    /\ NonRejected(1) /\ NonRejected(2)
    /\ SameBut(1, 2, "publication_date")
    /\ AgeDays(1) < 0
    /\ AgeDays(2) = 1
    /\ returned[1].breakdown.novelty = returned[2].breakdown.novelty

\* C20: the open-access component of a non-rejected candidate is 18.0 / 10.0
\* for OPEN_ACCESS with the policy on / off, -3.0 / 0.0 for PAYWALLED, and 4.0
\* for any other status; under either policy OPEN_ACCESS > other > PAYWALLED.
C20_OpenAccessComponent ==
    /\ \A i \in 1..Len(returned) :
            NonRejected(i) =>
                LET status == candidates[i].open_access_status
                    oa == returned[i].breakdown.open_access
                IN  /\ status = "OPEN_ACCESS" =>
                            oa = (IF config.OPEN_ACCESS_PRIORITY THEN 1800 ELSE 1000)
                    /\ status = "PAYWALLED" =>
                            oa = (IF config.OPEN_ACCESS_PRIORITY THEN -300 ELSE 0)
                    /\ status \notin {"OPEN_ACCESS", "PAYWALLED"} => oa = 400
    /\ \A i, j \in 1..Len(returned) :
            NonRejected(i) /\ NonRejected(j) =>
                LET si == candidates[i].open_access_status
                    sj == candidates[j].open_access_status
                IN  ( \/ si = "OPEN_ACCESS" /\ sj # "OPEN_ACCESS"
                      \/ si # "PAYWALLED" /\ sj = "PAYWALLED" )
                    => returned[i].breakdown.open_access > returned[j].breakdown.open_access

\* With the policy off, a candidate of a status the fetchers do not produce
\* scored above the same candidate PAYWALLED.
C20_Witness ==
    /\ pc = "done"
    /\ Len(returned) = 2
    /\ ~config.OPEN_ACCESS_PRIORITY
    /\ NonRejected(1) /\ NonRejected(2)
    /\ SameBut(1, 2, "open_access_status")
    /\ candidates[1].open_access_status = "HYBRID"
    /\ candidates[2].open_access_status = "PAYWALLED"
    /\ returned[1].breakdown.open_access = 400
    /\ returned[2].breakdown.open_access = 0

-----------------------------------------------------------------------------
(* SpecTopics: match_topics and the topic-match component on candidates that
   match several topics with different strengths *)

TopicsNPS == <<"cardiometabolic outcomes", "personality psychology", "social psychology">>

\* Phrases that a keyword or a label of the three topics is found in.
TopicPhrases ==
    {"big five", "personality psychology", "prejudice", "cooperation",
     "social psychology", "cardiometabolic outcomes"}

TopicsPool ==
    {Paper(<<"a">>, <<"a">>, "Appetite", MaxAge, "UNKNOWN", TRUE, "HUMAN", ab) :
        ab \in SUBSET TopicPhrases}

InitTopics ==
    /\ candidates \in {<<p>> : p \in TopicsPool} \cup {<<p, q>> : p, q \in TopicsPool}
    /\ config \in {Config(topics, TRUE, MaxCap, 1, TRUE) : topics \in {TopicsNP, TopicsNPS}}
    /\ seen_doi = {}
    /\ seen_titles = {}
    /\ now = MaxAge
    /\ InitRest

SpecTopics == InitTopics /\ [][NextSelect]_vars

\* Largest value of a non-empty topic_scores mapping.
TopScore(topic_scores) == SetMax({topic_scores[t] : t \in DOMAIN topic_scores})

\* Number of matched topics and sum of their scores (at most three topics).
ScoreSum(topic_scores) ==
    LET v(t) == IF t \in DOMAIN topic_scores THEN topic_scores[t] ELSE 0
    IN  v("cardiometabolic outcomes") + v("personality psychology") + v("social psychology")

\* C21: the topic-match component of a scored candidate is a step function of
\* the maximum per-topic match score alone: 28.0 from 4 up, 19.0 from 2.2 up to
\* below 4, 10.0 otherwise; two candidates with the same maximum have the same
\* component, whatever the number and the sum of their topic scores.
C21_TopicComponentOfMaximum ==
    /\ \A i \in 1..Len(returned) :
            returned[i].called /\ returned[i].total > 0 =>
                LET top == TopScore(returned[i].topic_scores)
                    tc == returned[i].breakdown.topic_match
                IN  /\ top >= 40 => tc = 2800
                    /\ top >= 22 /\ top < 40 => tc = 1900
                    /\ top < 22 => tc = 1000
    /\ \A i, j \in 1..Len(returned) :
            ( /\ returned[i].called /\ returned[i].total > 0
              /\ returned[j].called /\ returned[j].total > 0
              /\ TopScore(returned[i].topic_scores) = TopScore(returned[j].topic_scores) )
            => returned[i].breakdown.topic_match = returned[j].breakdown.topic_match

\* Two candidates with the same maximum 2.0: one matches one topic, the other
\* two topics with a sum of 3.0, above the 2.2 threshold; both get 10.0.
C21_Witness ==
    /\ pc = "done"
    /\ Len(returned) = 2
    /\ returned[1].total > 0 /\ returned[2].total > 0
    /\ TopScore(returned[1].topic_scores) = 20
    /\ TopScore(returned[2].topic_scores) = 20
    /\ Cardinality(DOMAIN returned[1].topic_scores) = 1
    /\ Cardinality(DOMAIN returned[2].topic_scores) = 2
    /\ ScoreSum(returned[2].topic_scores) = 30
    /\ returned[1].breakdown.topic_match = 1000
    /\ returned[2].breakdown.topic_match = 1000

\* C23: match_topics gives each configured topic 1.0 for every configured
\* keyword found in the text, 2.5 instead when that keyword is the topic label,
\* plus 1.5 when the label itself occurs in the text, and returns exactly the
\* topics with a score > 0: no entry of the mapping is zero.
C23_MatchTopicsScores ==
    \A i \in 1..Len(returned) :
        returned[i].called =>
            LET text == candidates[i].abstract
                kws(t) == config.TOPIC_KEYWORDS[t]
                found(t) == {k \in 1..Len(kws(t)) : Search(kws(t)[k], text)}
                expected(t) ==
                    10 * Cardinality({k \in found(t) : kws(t)[k] # t})
                    + 25 * Cardinality({k \in found(t) : kws(t)[k] = t})
                    + (IF Search(t, text) THEN 15 ELSE 0)
                ts == returned[i].topic_scores
            IN  /\ DOMAIN ts = {t \in SeqRange(config.TOPICS) : expected(t) > 0}
                /\ \A t \in DOMAIN ts : ts[t] = expected(t) /\ ts[t] > 0

\* One text for three topics: a keyword, the label as keyword and the label
\* itself give 5.0; a label that is no keyword gives 1.5; the third topic is
\* found nowhere and has no entry.
C23_Witness ==
    /\ pc = "done"
    /\ config.TOPICS = TopicsNPS
    /\ \E i \in 1..Len(returned) :
        /\ returned[i].called
        /\ DOMAIN returned[i].topic_scores = {"personality psychology", "social psychology"}
        /\ returned[i].topic_scores["personality psychology"] = 50
        /\ returned[i].topic_scores["social psychology"] = 15
        /\ candidates[i].topic_tags = <<"personality psychology", "social psychology">>

-----------------------------------------------------------------------------
(* SpecStudy: infer_study_type on texts that match no, one or two rules *)

StudyPhrases == DesignPhrases \cup {"meta-analysis", "prospective cohort"}

StudyPool ==
    {Paper(<<"a">>, <<"a">>, "Appetite", MaxAge, "UNKNOWN", TRUE, "HUMAN", tp \cup dp) :
        tp \in {{}, {"big five"}},
        dp \in {x \in SUBSET StudyPhrases : Cardinality(x) <= 2}}

InitStudy ==
    /\ candidates \in {<<p>> : p \in StudyPool}
    /\ config = Config(TopicsNP, TRUE, MaxCap, 1, TRUE)
    /\ seen_doi = {}
    /\ seen_titles = {}
    /\ now = MaxAge
    /\ InitRest

SpecStudy == InitStudy /\ [][NextSelect]_vars

\* Rule k of STUDY_PATTERNS has a pattern that is found in the text.
RuleMatches(k, text) == \E p \in STUDY_PATTERNS[k].patterns : Search(p, text)

\* C22: infer_study_type gives every scored text exactly one label: the label
\* of the earliest rule, in the fixed order of the ten rules, that has a
\* matching pattern, and "unknown" when no rule matches; a text that matches a
\* review or meta-analysis rule and the cohort rule is not labelled cohort.
C22_FirstMatchingRule ==
    /\ [k \in 1..Len(STUDY_PATTERNS) |-> STUDY_PATTERNS[k].label]
            = <<"systematic review", "meta-analysis", "randomized controlled trial",
                "mendelian randomization", "cohort", "case-control", "cross-sectional",
                "animal", "mechanistic", "theory">>
    /\ \A i \in 1..Len(returned) :
            returned[i].called =>
                LET text == candidates[i].abstract
                    st == candidates[i].study_type
                IN  /\ st \in StudyLabels
                    /\ \A k \in 1..Len(STUDY_PATTERNS) :
                            ( /\ RuleMatches(k, text)
                              /\ \A j \in 1..(k - 1) : ~RuleMatches(j, text) )
                            => st = STUDY_PATTERNS[k].label
                    /\ (\A k \in 1..Len(STUDY_PATTERNS) : ~RuleMatches(k, text))
                            => st = "unknown"
                    /\ (RuleMatches(1, text) \/ RuleMatches(2, text)) /\ RuleMatches(5, text)
                            => st # "cohort"

\* A text with "meta analysis" and "cohort" was labelled meta-analysis.
C22_Witness ==
    /\ pc = "done"
    /\ Len(returned) = 1
    /\ returned[1].called
    /\ RuleMatches(2, candidates[1].abstract)
    /\ RuleMatches(5, candidates[1].abstract)
    /\ ~RuleMatches(1, candidates[1].abstract)
    /\ candidates[1].study_type = "meta-analysis"

-----------------------------------------------------------------------------
(* SpecFrame: select_papers on candidates that already carry a study_type,
   topic_tags and a score, some of them seen, not peer-reviewed or rejected *)

\* Derived fields as the dataclass defaults them, and as an earlier scoring
\* left them.
PreviousValues ==
    {[study_type |-> "unknown", topic_tags |-> <<>>, score |-> 0],
     [study_type |-> "theory", topic_tags |-> <<"social psychology">>, score |-> 500]}

\* A survivor whose stronger topic is the second configured one, a paper
\* without topic and a nutrition paper on mice.
FrameTexts ==
    {{"personality psychology", "big five", "cardiometabolic"},
     {"cohort"},
     {"cardiometabolic", "mice"}}

FramePool ==
    {[Paper(t, <<>>, "Appetite", MaxAge, "UNKNOWN", peer, "HUMAN", ab)
        EXCEPT !.study_type = pv.study_type, !.topic_tags = pv.topic_tags,
               !.score = pv.score] :
        t \in {<<"a">>, <<"b">>}, peer \in BOOLEAN, ab \in FrameTexts,
        pv \in PreviousValues}

\* fetch_all keeps the candidates as they are handed to select_papers.
InitFrame ==
    /\ candidates \in SeqsUpTo(FramePool, MaxSeenCands)
    /\ fetch_all = candidates
    /\ config = Config(TopicsNP, TRUE, MaxCap, 1, TRUE)
    /\ seen_doi = {}
    /\ seen_titles = {<<"a">>}
    /\ now = MaxAge
    /\ pc = "start"
    /\ returned = <<>>
    /\ ranked = <<>>
    /\ selected = <<>>
    /\ selected_keys = {}
    /\ ti = 1
    /\ result = <<>>
    /\ db = EmptyDb
    /\ week = 0
    /\ posts = <<>>
    /\ history = {}
    /\ threads = NoThreads

SpecFrame == InitFrame /\ [][NextSelect]_vars

\* C30: select_papers leaves a candidate dropped by the pre-filter as it was,
\* changes nothing but study_type on a candidate the scorer rejects, and on a
\* survivor stores the total as score and the matched topics, each once, in
\* descending order of match score, as topic_tags; no other field of a
\* candidate changes.
C30_WritesOnlyOnSurvivors ==
    pc # "start" =>
        /\ Len(candidates) = Len(fetch_all)
        /\ \A i \in 1..Len(candidates) :
            LET before == fetch_all[i]
                after == candidates[i]
                tags == after.topic_tags
                ts == returned[i].topic_scores
            IN  /\ [after EXCEPT !.study_type = before.study_type,
                                 !.topic_tags = before.topic_tags,
                                 !.score = before.score] = before
                /\ ~returned[i].called => after = before
                /\ returned[i].called /\ returned[i].total <= 0 =>
                        /\ after.score = before.score
                        /\ after.topic_tags = before.topic_tags
                /\ returned[i].called /\ returned[i].total > 0 =>
                        /\ after.score = returned[i].total
                        /\ SeqRange(tags) = DOMAIN ts
                        /\ Len(tags) = Cardinality(DOMAIN ts)
                        /\ \A m, n \in 1..Len(tags) : m < n => ts[tags[m]] >= ts[tags[n]]

\* A rejected candidate kept the score and topic_tags of an earlier scoring
\* while its study_type changed, and a survivor that carried an earlier score
\* got its two topics with the stronger, second configured one first.
C30_Witness ==
    /\ pc = "done"
    /\ \E i \in 1..Len(candidates) :
        /\ returned[i].called
        /\ returned[i].total = 0
        /\ candidates[i].score = 500
        /\ candidates[i].topic_tags = <<"social psychology">>
        /\ candidates[i].study_type # fetch_all[i].study_type
    /\ \E i \in 1..Len(candidates) :
        /\ returned[i].total > 0
        /\ fetch_all[i].score = 500
        /\ candidates[i].score = returned[i].total
        /\ candidates[i].topic_tags = <<"personality psychology", "cardiometabolic outcomes">>

-----------------------------------------------------------------------------
(* The store and the weekly pipeline *)

\* The default title save_week_digest falls back to.
Untitled == <<"U", "n", "t", "i", "t", "l", "e", "d">>

\* DigestPipeline.week_key: the ISO week of the day
week_key(today) == today \div 7

\* DigestStore.get_seen_sets
get_seen_sets(d) ==
    [doi |-> {Strip(Lower(x)) : x \in {y \in d.seen_doi : y # <<>>}},
     titles |-> {x \in d.seen_titles : x # <<>>}]

\* DigestStore.get_digest_for_week, for a week that has a run
get_digest_for_week(d, w) == d.posts[w]

\* writer.render_post_object: the fields of the post the store reads
render_post_object(paper) == [doi |-> paper.doi, paper_title |-> paper.title]

\* The rows save_week_digest inserts into `posts`: the payload with its slug
\* (no post has a "title", so the slugs are post-1, post-2, ...).
StoredPosts(ps) == [i \in 1..Len(ps) |-> [doi |-> ps[i].doi,
                                           paper_title |-> ps[i].paper_title,
                                           slug |-> i]]

SavedDoi(post) == Strip(Lower(post.doi))

SavedTitle(post) == IF post.paper_title # <<>> THEN post.paper_title ELSE Untitled

save_week_digest_SeenOfStoredPosts(d, w, ps) ==
    LET stored == [x \in d.digest_runs \cup {w} |->
                        IF x = w THEN StoredPosts(ps) ELSE d.posts[x]]
        all == UNION {SeqRange(stored[x]) : x \in DOMAIN stored}
    IN  [digest_runs |-> d.digest_runs \cup {w},
         posts |-> stored,
         seen_doi |-> {SavedDoi(q) : q \in all} \ {<<>>},
         seen_titles |-> {normalize_title(SavedTitle(q)) : q \in all} \ {<<>>}]

\* DigestStore.save_week_digest
save_week_digest(d, w, ps) ==
    [digest_runs |-> d.digest_runs \cup {w},
     posts |-> [x \in d.digest_runs \cup {w} |->
                    IF x = w THEN StoredPosts(ps) ELSE d.posts[x]],
     seen_doi |-> d.seen_doi \cup {SavedDoi(ps[i]) : i \in {j \in 1..Len(ps) :
                                                            SavedDoi(ps[j]) # <<>>}},
     seen_titles |-> d.seen_titles
                     \cup {normalize_title(SavedTitle(ps[i])) :
                            i \in {j \in 1..Len(ps) :
                                    normalize_title(SavedTitle(ps[j])) # <<>>}}]

PREPRINT_TEXT_HINTS == {"preprint", "biorxiv", "medrxiv", "arxiv", "research square"}

CONFERENCE_TEXT_HINTS == {"conference", "congress", "meeting abstract", "abstract only"}

InText(hint, paper) == Search(hint, paper.abstract) \/ InJournal(hint, paper.journal)

_passes_exclusions_UnknownPasses(paper, cfg) ==
    /\ ~("non-peer reviewed" \in cfg.EXCLUDE /\ ~paper.peer_reviewed)
    /\ ~("preprints only" \in cfg.EXCLUDE
            /\ \E h \in PREPRINT_TEXT_HINTS : InText(h, paper))
    /\ ~("conference abstracts" \in cfg.EXCLUDE
            /\ \E h \in CONFERENCE_TEXT_HINTS : InText(h, paper))
    /\ ~(cfg.HUMAN_STUDIES_ONLY /\ paper.human_evidence = "NON_HUMAN")

\* DigestPipeline._passes_exclusions
_passes_exclusions(paper, cfg) ==
    /\ ~("non-peer reviewed" \in cfg.EXCLUDE /\ ~paper.peer_reviewed)
    /\ ~("preprints only" \in cfg.EXCLUDE
            /\ \E h \in PREPRINT_TEXT_HINTS : InText(h, paper))
    /\ ~("conference abstracts" \in cfg.EXCLUDE
            /\ \E h \in CONFERENCE_TEXT_HINTS : InText(h, paper))
    /\ ~(cfg.HUMAN_STUDIES_ONLY /\ paper.human_evidence # "HUMAN")

\* DigestPipeline.generate_digest on the fetched candidates: the candidates it
\* hands to select_papers, the selection and the posts it returns.
generate_digest(fetched, cfg, d, today) ==
    LET cands == SelectSeq(fetched, LAMBDA p : _passes_exclusions(p, cfg))
        seen == get_seen_sets(d)
        sel == select_papers(cands, cfg, seen.doi, seen.titles, today)
    IN  [candidates |-> [i \in 1..Len(cands) |->
                            ScoredPaper(cands[i], cfg, seen.doi, seen.titles, today)],
         seen |-> seen,
         ranked |-> sel,
         posts |-> Prefix([i \in 1..Len(sel) |-> render_post_object(sel[i].paper)],
                          cfg.MAX_PAPERS_PER_WEEK)]

\* Candidates as the fetchers deliver them: peer_reviewed is always True, the
\* DOI went through normalize_doi, the title through strip_html.
FetchedPool ==
    {Paper(<<"a">>, <<"a">>, "Appetite", 0, "UNKNOWN", TRUE, "HUMAN", {"big five"}),
     Paper(<<"a", ":", "b">>, <<>>, "Appetite", 0, "UNKNOWN", TRUE, "HUMAN", {"big five"}),
     Paper(<<"b">>, <<>>, "Appetite", 0, "UNKNOWN", TRUE, "UNKNOWN", {"big five"})}

RunDays == {7 * w : w \in 1..MaxWeek}

\* ensure_weekly_digest(now, force) when it generates: fetch, exclusions,
\* select_papers, rendering and save_week_digest
GenerateAndSave(today, force, fetched) ==
    /\ pc = "idle"
    /\ force \/ week_key(today) \notin db.digest_runs
    /\ \E g \in {generate_digest(fetched, config, db, today)} :
           /\ candidates' = g.candidates
           /\ seen_doi' = g.seen.doi
           /\ seen_titles' = g.seen.titles
           /\ result' = g.ranked
           /\ posts' = g.posts
           /\ db' = save_week_digest(db, week_key(today), g.posts)
           /\ history' = history \cup KeysOf(result)
    /\ week' = week_key(today)
    /\ now' = today
    /\ fetch_all' = fetched
    /\ UNCHANGED <<config, pc, returned, ranked, selected, selected_keys, ti, threads>>

ReturnStoredDigest_IgnoresStored(today) ==
    /\ week_key(today) \in db.digest_runs
    /\ \E fetched \in SeqsUpTo(FetchedPool, MaxFetched) : GenerateAndSave(today, TRUE, fetched)

\* ensure_weekly_digest(now, force=False) for a week that has a stored digest
ReturnStoredDigest(today) ==
    /\ pc = "idle"
    /\ week_key(today) \in db.digest_runs
    /\ week' = week_key(today)
    /\ now' = today
    /\ posts' = get_digest_for_week(db, week_key(today))
    /\ UNCHANGED <<config, candidates, seen_doi, seen_titles, pc, returned, ranked,
                   selected, selected_keys, ti, result, db, history, threads,
                   fetch_all>>

Init ==
    /\ config \in {Config(TopicsNP, TRUE, max, 1, ho) : max \in {1, MaxCap}, ho \in BOOLEAN}
    /\ candidates = <<>>
    /\ seen_doi = {}
    /\ seen_titles = {}
    /\ now = 0
    /\ pc = "idle"
    /\ returned = <<>>
    /\ ranked = <<>>
    /\ selected = <<>>
    /\ selected_keys = {}
    /\ ti = 1
    /\ result = <<>>
    /\ db = EmptyDb
    /\ week = 0
    /\ posts = <<>>
    /\ history = {}
    /\ threads = NoThreads
    /\ fetch_all = <<>>

Next ==
    \E today \in RunDays :
        \/ ReturnStoredDigest(today)
        \/ \E force \in BOOLEAN, fetched \in SeqsUpTo(FetchedPool, MaxFetched) :
                GenerateAndSave(today, force, fetched)

Spec == Init /\ [][Next]_vars

\* C3: once a paper has been selected and saved, no later run selects a
\* candidate with the same dedupe key: no paper of the latest selection has a
\* dedupe key that an earlier run selected and saved.
C3_NeverReselected ==
    \A i \in 1..Len(result) : dedupe_key(result[i].paper) \notin history

\* C16: the seen history only grows: every DOI and every normalized title in
\* seen_doi / seen_titles is still there after any generation and save, a
\* forced regeneration that replaces the posts of a week included.
C16_SeenAppendOnly ==
    [][/\ db.seen_doi \subseteq db'.seen_doi
       /\ db.seen_titles \subseteq db'.seen_titles]_vars

\* Posts stored for any week.
AllStoredPosts == UNION {SeqRange(db.posts[w]) : w \in db.digest_runs}

\* A forced regeneration has replaced the posts of a week: a title of the
\* seen history belongs to no post that is still stored.
C16_Witness ==
    /\ db.digest_runs # {}
    /\ \E x \in db.seen_titles :
            \A q \in AllStoredPosts : normalize_title(SavedTitle(q)) # x

C26_ForcedRegenerationDisjoint ==
    [][\A today \in RunDays, fetched \in SeqsUpTo(FetchedPool, MaxFetched) :
            ( /\ week_key(today) \in db.digest_runs
              /\ GenerateAndSave(today, TRUE, fetched) )
            => LET old == db.posts[week_key(today)]
                   new == db'.posts[week_key(today)]
                   key(q) == IF q.doi # <<>> THEN Strip(Lower(q.doi))
                             ELSE Lower(Strip(q.paper_title))
                   old_keys == {key(old[i]) : i \in 1..Len(old)}
               IN  /\ \A i \in 1..Len(old) :
                        old[i].doi # <<>> => Strip(Lower(old[i].doi)) \in seen_doi'
                   /\ \A j \in 1..Len(new) : key(new[j]) \notin old_keys
                   /\ (\A i \in 1..Len(fetched) : dedupe_key(fetched[i]) \in old_keys)
                        => new = <<>>
      ]_vars

-----------------------------------------------------------------------------
(* SpecExclusions: generate_digest on fetched candidates of every
   human-evidence class *)

HumanEvidence == {"HUMAN", "NON_HUMAN", "UNKNOWN"}

ExclusionPool ==
    {Paper(t, <<>>, "Appetite", 0, "UNKNOWN", TRUE, h, {"big five"}) :
        t \in {<<"a">>, <<"b">>}, h \in HumanEvidence}

NextExclusions ==
    \E force \in BOOLEAN, fetched \in SeqsUpTo(ExclusionPool, MaxExclCands) :
        GenerateAndSave(7, force, fetched)

\* An empty store and a cap that never binds.
InitExclusions == Init /\ config.MAX_PAPERS_PER_WEEK = MaxCap

SpecExclusions == InitExclusions /\ [][NextExclusions]_vars

\* C25: with HUMAN_STUDIES_ONLY on, every candidate generate_digest hands to
\* select_papers, every selected paper and so every post of the generated
\* digest has human_evidence = HUMAN.
C25_HumanStudiesOnly ==
    config.HUMAN_STUDIES_ONLY =>
        /\ \A i \in 1..Len(candidates) : candidates[i].human_evidence = "HUMAN"
        /\ \A i \in 1..Len(result) : result[i].paper.human_evidence = "HUMAN"
        /\ Len(posts) <= Len(result)
        /\ \A i \in 1..Len(posts) : posts[i] = render_post_object(result[i].paper)

\* The fetch returned a NON_HUMAN and an UNKNOWN paper with unseen titles next
\* to a HUMAN one; only the HUMAN paper reached the selector and the digest,
\* although the cap left room.
C25_Witness ==
    /\ config.HUMAN_STUDIES_ONLY
    /\ config.MAX_PAPERS_PER_WEEK > Len(result)
    /\ db.digest_runs # {}
    /\ seen_titles = {}
    /\ \E i \in 1..Len(fetch_all) : fetch_all[i].human_evidence # "HUMAN"
    /\ Len(fetch_all) = 2
    /\ Len(candidates) = 1
    /\ Len(result) = 1
    /\ Len(posts) = 1

-----------------------------------------------------------------------------
(* SpecServer: ThreadingHTTPServer, one thread per request, all threads on
   the one DigestPipeline and DigestStore *)

\* do_GET of "/", "/digest.json" or "/refresh": the handler calls
\* pipeline.ensure_weekly_digest(force).
HandleRequest(t, today, force) ==
    /\ threads[t].pc = "idle"
    /\ threads' = [threads EXCEPT ![t] = [pc |-> "ensure", today |-> today,
                                         force |-> force, posts |-> <<>>]]
    /\ UNCHANGED <<config, candidates, seen_doi, seen_titles, now, pc, returned, ranked,
                   selected, selected_keys, ti, result, db, week, posts, history,
                   fetch_all>>

\* ensure_weekly_digest up to the lookup of the stored digest (pipeline.py 27-32)
CheckExisting(t) ==
    /\ threads[t].pc = "ensure"
    /\ threads' = [threads EXCEPT ![t] =
            IF ~threads[t].force /\ week_key(threads[t].today) \in db.digest_runs
            THEN [@ EXCEPT !.pc = "done",
                           !.posts = get_digest_for_week(db, week_key(threads[t].today))]
            ELSE [@ EXCEPT !.pc = "generate"]]
    /\ UNCHANGED <<config, candidates, seen_doi, seen_titles, now, pc, returned, ranked,
                   selected, selected_keys, ti, result, db, week, posts, history,
                   fetch_all>>

\* generate_digest: fetch, exclusions, the read of the seen sets, selection
\* and rendering (pipeline.py 34)
GenerateDigest(t, fetched) ==
    /\ threads[t].pc = "generate"
    /\ threads' = [threads EXCEPT ![t] =
            [@ EXCEPT !.pc = "save",
                      !.posts = generate_digest(fetched, config, db, threads[t].today).posts]]
    /\ UNCHANGED <<config, candidates, seen_doi, seen_titles, now, pc, returned, ranked,
                   selected, selected_keys, ti, result, db, week, posts, history,
                   fetch_all>>

\* store.save_week_digest and the return (pipeline.py 35-37)
SaveDigest(t) ==
    /\ threads[t].pc = "save"
    /\ db' = save_week_digest(db, week_key(threads[t].today), threads[t].posts)
    /\ threads' = [threads EXCEPT ![t] = [@ EXCEPT !.pc = "done"]]
    /\ UNCHANGED <<config, candidates, seen_doi, seen_titles, now, pc, returned, ranked,
                   selected, selected_keys, ti, result, week, posts, history,
                   fetch_all>>

InitServer ==
    /\ config = Config(TopicsNP, TRUE, MaxCap, 1, TRUE)
    /\ candidates = <<>>
    /\ seen_doi = {}
    /\ seen_titles = {}
    /\ now = 0
    /\ pc = "idle"
    /\ returned = <<>>
    /\ ranked = <<>>
    /\ selected = <<>>
    /\ selected_keys = {}
    /\ ti = 1
    /\ result = <<>>
    /\ db = EmptyDb
    /\ week = 0
    /\ posts = <<>>
    /\ history = {}
    /\ threads = NoThreads
    /\ fetch_all = <<>>

NextServer ==
    \E t \in 1..MaxThreads :
        \/ \E today \in RunDays, force \in BOOLEAN : HandleRequest(t, today, force)
        \/ CheckExisting(t)
        \/ \E fetched \in SeqsUpTo(FetchedPool, MaxFetched) : GenerateDigest(t, fetched)
        \/ SaveDigest(t)

SpecServer == InitServer /\ [][NextServer]_vars

\* The thread is inside a generate_digest + save_week_digest cycle.
InCycle(t) == threads[t].pc \in {"generate", "save"}

\* C17: at most one generate_digest + save_week_digest cycle for the same week
\* is in progress at a time.
C17_CyclesSerialized ==
    \A t1, t2 \in 1..MaxThreads :
        ( /\ t1 # t2
          /\ InCycle(t1) /\ InCycle(t2) )
        => week_key(threads[t1].today) # week_key(threads[t2].today)

====
